---- MODULE Spec2Model ----
(***************************************************************************)
(* A model of the robustness-test checkers of etcd:                        *)
(*   - ClusterKVHashChecks / checkKVHash, the watch completeness checker   *)
(*     (one worker goroutine per member, one distributor goroutine);       *)
(*   - CheckHashKV, the cross-member hash verifier;                        *)
(*   - the fault-injection wrappers of rafthttp: hijackedResponseWriter,   *)
(*     hijackedReadCloser and the two hijacked round-trippers.             *)
(* Specification Spec runs the watch checker, SpecHash runs CheckHashKV,   *)
(* SpecHashVariants its two variants that fail through require,            *)
(* SpecWriter a handler on a hijacked response writer, SpecReader the      *)
(* request bodies sent through the two hijacked round-trippers.            *)
(***************************************************************************)
EXTENDS Integers, Sequences, FiniteSets

\* ------------------------------------------------------------------------
\* Bounds of the model
\* ------------------------------------------------------------------------

\* len(clus.Procs) in the watch checker
NumMembers == 2

\* the largest target revision the driver puts on hashKVRevisionChan
MaxTarget == 2

\* how many target revisions the driver sends at most
MaxSends == 2

\* capacity of the caller's hashKVRevisionChan (the caller chooses it)
ChanCap == 1

\* how many c.Watch calls of a worker are logged at most
MaxWatches == 3

\* capacity of every memberHashKVRevisionChans[i]: make(chan int64, 100), a
\* constant of the program, not a bound
MemberChanCap == 100

Members == 1..NumMembers
Targets == 1..MaxTarget

\* the highest revision of a member's event log: larger than every target
MaxRev == MaxTarget + 1

VARIABLES
    \* --- the driver and the shared channel
    hashKVRevisionChan,          \* values sent and not yet received
    chanClosed,                  \* close(hashKVRevisionChan) was called
    sent,                        \* every value the driver sent, in order
    extCancelled,                \* the ctx given to ClusterKVHashChecks is done
    \* --- checkKVHash, one per member
    pc,                          \* "select" | "report" | "locked" | "done"
    maxRevision,
    lastRevision,
    cancelled,                   \* cancel() of the worker's own ctx was called
    errors,                      \* what the worker reported through t.Errorf
    received,                    \* the targets the worker received, in order
    watchNext,                   \* next revision the open subscription delivers
    watches,                     \* the c.Watch calls made, in order
    \* --- the distributor goroutine
    distPc,                      \* "recv" | "fwd" | "done"
    distRev,
    distIdx,
    memberHashKVRevisionChans,
    \* --- ClusterKVHashChecks
    mux,                         \* the worker holding mux, 0 when unlocked
    reports,                     \* per slot, the workers that wrote it, in order
    returned

\* ------------------------------------------------------------------------
\* CheckHashKV
\* ------------------------------------------------------------------------
VARIABLES
    hpc,                         \* "new" | "first" | "probe" | "compare" | "done"
                                 \* "report" | "pass1" | "pass2" | "require"
    hn,                          \* len(clus.Procs)
    hreq,                        \* the rev argument
    rev,                         \* the rev variable
    hashKVs,
    hidx,                        \* loop index (member being probed / pair compared)
    responses,                   \* every answer getHashKV got, in call order
    compared,                    \* number of field comparisons made
    herr                         \* the returned error

\* ------------------------------------------------------------------------
\* The fault-injection wrappers
\* ------------------------------------------------------------------------
VARIABLES
    armed,                       \* the failpoints that are armed (by name)
    \* --- hijackedResponseWriter
    originalResponseWriter,      \* "nil" | "writer" | "flusher"
    writerCalls,                 \* the calls made on the hijacked writer
    underlyingCalls,             \* the calls the underlying writer received
    writerPanic,                 \* a call on the hijacked writer panicked
    \* --- hijackedReadCloser, one request body per round-tripper
    bodyState,                   \* "new" | "open" | "closed" | "panic"
    originalReadCloser,          \* "nil" | "stream"
    remaining,                   \* bytes of the underlying stream not yet read
    delivered,                   \* bytes the caller of Read was given
    reads,                       \* the Read calls made on the hijacked reader
    closes,                      \* the Close calls made on the hijacked reader
    \* --- the hijacked round-trippers
    transports,                  \* per path, the embedded http.Transport: its
                                 \* settings and the RoundTrip calls it received
    roundTrips                   \* per path, the RoundTrip calls made

watchVars == <<hashKVRevisionChan, chanClosed, sent, extCancelled, pc,
               maxRevision, lastRevision, cancelled, errors, received,
               watchNext, watches, distPc, distRev, distIdx,
               memberHashKVRevisionChans, mux, reports, returned>>

hashVars == <<hpc, hn, hreq, rev, hashKVs, hidx, responses, compared, herr>>

writerVars == <<originalResponseWriter, writerCalls, underlyingCalls,
                writerPanic>>

readerVars == <<bodyState, originalReadCloser, remaining, delivered, reads,
                closes, transports, roundTrips>>

ioVars == <<armed, writerVars, readerVars>>

vars == <<watchVars, hashVars, ioVars>>

\* ------------------------------------------------------------------------
\* Helpers
\* ------------------------------------------------------------------------
RECURSIVE SeqMax(_)
SeqMax(s) ==
    IF s = <<>> THEN 0
    ELSE LET m == SeqMax(Tail(s)) IN IF Head(s) > m THEN Head(s) ELSE m

IsPrefix(s, t) ==
    /\ Len(s) <= Len(t)
    /\ \A k \in 1..Len(s) : s[k] = t[k]

StrictlyIncreasing(s) == \A k \in 1..(Len(s) - 1) : s[k] < s[k + 1]

\* ------------------------------------------------------------------------
\* The watch completeness checker
\* ------------------------------------------------------------------------

\* t.Errorf("Client didn't collect all events, max revision not set")
ErrMaxRevisionNotSet == [kind |-> "maxRevisionNotSet", got |-> 0, expected |-> 0]

\* t.Errorf("Client didn't collect all events, revision got %d, expected: %d", ...)
ErrNotAllEvents(got, expected) ==
    [kind |-> "notAllEvents", got |-> got, expected |-> expected]

\* t.Errorf("Watch stream received error, err %v", resp.Err())
ErrWatchStream == [kind |-> "watchStream", got |-> 0, expected |-> 0]

\* watch := c.Watch(ctx, "", lastRevision+1, true, true, false): the start
\* revision of the subscription opened when lastRevision is lastRev
WatchStart_OneBefore(lastRev) == lastRev - 1

WatchStart_FromTheBeginning(lastRev) == 2

WatchStart_Same(lastRev) == lastRev

WatchStart(lastRev) == lastRev + 1

\* one call of c.Watch: what led to it ("first", or "closed" / "canceled" for
\* the two continue resetWatch), lastRevision at the call, and the start
\* revision it asked for
WatchCall(after, lastRev) ==
    [after |-> after, last |-> lastRev, start |-> WatchStart(lastRev)]

\* var maxRevision int64; var lastRevision int64 = 1; the first c.Watch
InitWatch ==
    /\ hashKVRevisionChan = <<>>
    /\ chanClosed = FALSE
    /\ sent = <<>>
    /\ extCancelled = FALSE
    /\ pc = [w \in Members |-> "select"]
    /\ maxRevision = [w \in Members |-> 0]
    /\ lastRevision = [w \in Members |-> 1]
    /\ cancelled = [w \in Members |-> FALSE]
    /\ errors = [w \in Members |-> {}]
    /\ received = [w \in Members |-> <<>>]
    /\ watchNext = [w \in Members |-> WatchStart(1)]
    /\ watches = [w \in Members |-> <<WatchCall("first", 1)>>]
    /\ distPc = "recv"
    /\ distRev = 0
    /\ distIdx = 0
    /\ memberHashKVRevisionChans = [w \in Members |-> <<>>]
    /\ mux = 0
    /\ reports = [w \in Members |-> <<>>]
    /\ returned = FALSE

\* <-ctx.Done() of the worker's ctx, derived from the caller's by WithCancel
CtxDone_OwnCancelOnly(w) == cancelled[w]

CtxDone_OneForAll(w) == extCancelled \/ \E v \in Members : cancelled[v]

CtxDone(w) == extCancelled \/ cancelled[w]

driverVars == <<hashKVRevisionChan, chanClosed, sent>>
distVars == <<distPc, distRev, distIdx, memberHashKVRevisionChans>>
checkerVars == <<mux, reports, returned>>

\* The driver sends one more target revision.
DriverSend(v) ==
    /\ ~chanClosed
    /\ Len(sent) < MaxSends
    /\ Len(hashKVRevisionChan) < ChanCap
    /\ hashKVRevisionChan' = Append(hashKVRevisionChan, v)
    /\ sent' = Append(sent, v)
    /\ UNCHANGED <<chanClosed, extCancelled, pc, maxRevision, lastRevision,
                   cancelled, errors, received, watchNext, distVars,
                   checkerVars, watches, hashVars, ioVars>>

\* more targets than a worker's queue holds
ManyTargets == MemberChanCap + 1

\* The driver sends one more target revision, of up to ManyTargets.
DriverSendMany(v) ==
    /\ ~chanClosed
    /\ Len(sent) < ManyTargets
    /\ Len(hashKVRevisionChan) < ChanCap
    /\ hashKVRevisionChan' = Append(hashKVRevisionChan, v)
    /\ sent' = Append(sent, v)
    /\ UNCHANGED <<chanClosed, extCancelled, pc, maxRevision, lastRevision,
                   cancelled, errors, received, watchNext, distVars,
                   checkerVars, watches, hashVars, ioVars>>

\* The driver closes the target stream.
DriverClose ==
    /\ ~chanClosed
    /\ chanClosed' = TRUE
    /\ UNCHANGED <<hashKVRevisionChan, sent, extCancelled, pc, maxRevision,
                   lastRevision, cancelled, errors, received, watchNext,
                   distVars, checkerVars, watches, hashVars, ioVars>>

\* The deadline or the end of the test cancels the caller's ctx.
ExternalCancel ==
    /\ ~extCancelled
    /\ ~returned
    /\ extCancelled' = TRUE
    /\ UNCHANGED <<driverVars, pc, maxRevision, lastRevision, cancelled,
                   errors, received, watchNext, distVars, checkerVars,
                   watches, hashVars, ioVars>>

\* The two checks of the ctx.Done() case.
FinalCheck_NoGapCheck(maxRev, lastRev) ==
    IF maxRev = 0 THEN {ErrMaxRevisionNotSet} ELSE {}

FinalCheck_NoNotSetCheck(maxRev, lastRev) ==
    IF lastRev < maxRev THEN {ErrNotAllEvents(lastRev, maxRev)} ELSE {}

FinalCheck(maxRev, lastRev) ==
    (IF maxRev = 0 THEN {ErrMaxRevisionNotSet} ELSE {})
        \cup (IF lastRev < maxRev THEN {ErrNotAllEvents(lastRev, maxRev)} ELSE {})

\* case <-ctx.Done(): the final check, then return
WorkerCtxDone(w) ==
    /\ pc[w] = "select"
    /\ CtxDone(w)
    /\ errors' = [errors EXCEPT
                    ![w] = @ \cup FinalCheck(maxRevision[w], lastRevision[w])]
    /\ pc' = [pc EXCEPT ![w] = "report"]
    /\ watchNext' = [watchNext EXCEPT ![w] = 0]
    /\ UNCHANGED <<driverVars, extCancelled, maxRevision, lastRevision,
                   cancelled, received, distVars, checkerVars, watches,
                   hashVars, ioVars>>

\* maxRevision = revision
NewMaxRevision_Max(old, revision) == IF revision > old THEN revision ELSE old

NewMaxRevision(old, revision) == revision

\* case revision, ok := <-hashKVRevisionChan, ok == true
WorkerRecvTarget(w) ==
    /\ pc[w] = "select"
    /\ hashKVRevisionChan # <<>>
    /\ LET revision == Head(hashKVRevisionChan)
           newMax == NewMaxRevision(maxRevision[w], revision)
       IN  /\ hashKVRevisionChan' = Tail(hashKVRevisionChan)
           /\ received' = [received EXCEPT ![w] = Append(@, revision)]
           /\ maxRevision' = [maxRevision EXCEPT ![w] = newMax]
           /\ cancelled' = [cancelled EXCEPT
                              ![w] = @ \/ (lastRevision[w] >= newMax)]
    /\ UNCHANGED <<chanClosed, sent, extCancelled, pc, lastRevision, errors,
                   watchNext, distVars, checkerVars, watches, hashVars,
                   ioVars>>

\* case revision, ok := <-hashKVRevisionChan, ok == false
WorkerRecvClosed(w) ==
    /\ pc[w] = "select"
    /\ hashKVRevisionChan = <<>>
    /\ chanClosed
    /\ cancelled' = [cancelled EXCEPT ![w] = @ \/ (maxRevision[w] = 0)]
    /\ UNCHANGED <<driverVars, extCancelled, pc, maxRevision, lastRevision,
                   errors, received, watchNext, distVars, checkerVars,
                   watches, hashVars, ioVars>>

\* if maxRevision != 0 && lastRevision >= maxRevision { cancel() }
ReachedTarget_IgnoresLast(maxRev, lastRev) == maxRev # 0

ReachedTarget(maxRev, lastRev) == maxRev # 0 /\ lastRev >= maxRev

\* case resp, ok := <-watch: no error, the events of revisions watchNext..k
WorkerWatchEvents(w, k) ==
    /\ pc[w] = "select"
    /\ k >= watchNext[w]
    /\ lastRevision' = [lastRevision EXCEPT ![w] = k]
    /\ watchNext' = [watchNext EXCEPT ![w] = k + 1]
    /\ cancelled' = [cancelled EXCEPT
                       ![w] = @ \/ ReachedTarget(maxRevision[w], k)]
    /\ UNCHANGED <<driverVars, extCancelled, pc, maxRevision, errors,
                   received, distVars, checkerVars, watches, hashVars, ioVars>>

\* case resp, ok := <-watch: no error and no events (a progress notification)
WorkerWatchProgress(w) ==
    /\ pc[w] = "select"
    /\ cancelled' = [cancelled EXCEPT
                       ![w] = @ \/ ReachedTarget(maxRevision[w], lastRevision[w])]
    /\ UNCHANGED <<driverVars, extCancelled, pc, maxRevision, lastRevision,
                   errors, received, watchNext, distVars, checkerVars,
                   watches, hashVars, ioVars>>

\* case resp, ok := <-watch, ok == false: continue resetWatch, which opens
\* the next subscription
WatchChannelClosed(w) ==
    /\ pc[w] = "select"
    /\ watchNext' = [watchNext EXCEPT ![w] = WatchStart(lastRevision[w])]
    /\ UNCHANGED <<driverVars, extCancelled, pc, maxRevision, lastRevision,
                   cancelled, errors, received, distVars, checkerVars,
                   hashVars, ioVars>>

\* the step when the c.Watch calls are not logged
WorkerWatchClosed(w) ==
    /\ WatchChannelClosed(w)
    /\ UNCHANGED watches

\* the step when they are
WorkerWatchClosedLogged(w) ==
    /\ Len(watches[w]) < MaxWatches
    /\ WatchChannelClosed(w)
    /\ watches' = [watches EXCEPT
                     ![w] = Append(@, WatchCall("closed", lastRevision'[w]))]

\* if resp.CompactRevision > lastRevision { lastRevision = resp.CompactRevision }
AfterCompaction_Always(lastRev, compactRevision) == compactRevision

AfterCompaction(lastRev, compactRevision) ==
    IF compactRevision > lastRev THEN compactRevision ELSE lastRev

\* resp.Err() != nil && resp.Canceled: continue resetWatch, which opens the
\* next subscription
WatchCanceled(w, compactRevision) ==
    /\ pc[w] = "select"
    /\ LET last == AfterCompaction(lastRevision[w], compactRevision)
       IN  /\ lastRevision' = [lastRevision EXCEPT ![w] = last]
           /\ watchNext' = [watchNext EXCEPT ![w] = WatchStart(last)]
    /\ UNCHANGED <<driverVars, extCancelled, pc, maxRevision, cancelled,
                   errors, received, distVars, checkerVars, hashVars, ioVars>>

\* the step when the c.Watch calls are not logged
WorkerWatchCanceled(w, compactRevision) ==
    /\ WatchCanceled(w, compactRevision)
    /\ UNCHANGED watches

\* the step when they are
WorkerWatchCanceledLogged(w, compactRevision) ==
    /\ Len(watches[w]) < MaxWatches
    /\ WatchCanceled(w, compactRevision)
    /\ watches' = [watches EXCEPT
                     ![w] = Append(@, WatchCall("canceled", lastRevision'[w]))]

\* resp.Err() != nil && !resp.Canceled: t.Errorf, then the response is
\* handled like any other (k = 0: it carries no events)
WorkerWatchError(w, k) ==
    /\ pc[w] = "select"
    /\ k = 0 \/ k >= watchNext[w]
    /\ errors' = [errors EXCEPT ![w] = @ \cup {ErrWatchStream}]
    /\ LET last == IF k = 0 THEN lastRevision[w] ELSE k
       IN  /\ lastRevision' = [lastRevision EXCEPT ![w] = last]
           /\ watchNext' = [watchNext EXCEPT ![w] = IF k = 0 THEN @ ELSE k + 1]
           /\ cancelled' = [cancelled EXCEPT
                              ![w] = @ \/ ReachedTarget(maxRevision[w], last)]
    /\ UNCHANGED <<driverVars, extCancelled, pc, maxRevision, received,
                   distVars, checkerVars, watches, hashVars, ioVars>>

\* mux.Lock() returns when no goroutine holds mux
CanLock_Always(holder) == TRUE

CanLock(holder) == holder = 0

\* checkKVHash returned: mux.Lock()
WorkerLock(w) ==
    /\ pc[w] = "report"
    /\ CanLock(mux)
    /\ mux' = w
    /\ pc' = [pc EXCEPT ![w] = "locked"]
    /\ UNCHANGED <<driverVars, extCancelled, maxRevision, lastRevision,
                   cancelled, errors, received, watchNext, distVars, reports,
                   returned, watches, hashVars, ioVars>>

\* reports[i] = c.Report(); mux.Unlock(); then c.Close() and wg.Done()
WorkerReport(w) ==
    /\ pc[w] = "locked"
    /\ reports' = [reports EXCEPT ![w] = Append(@, w)]
    /\ mux' = 0
    /\ pc' = [pc EXCEPT ![w] = "done"]
    /\ UNCHANGED <<driverVars, extCancelled, maxRevision, lastRevision,
                   cancelled, errors, received, watchNext, distVars, returned,
                   watches, hashVars, ioVars>>

\* if revision, ok := <-hashKVRevisionChan; ok
DistributorRecv ==
    /\ distPc = "recv"
    /\ hashKVRevisionChan # <<>>
    /\ distRev' = Head(hashKVRevisionChan)
    /\ hashKVRevisionChan' = Tail(hashKVRevisionChan)
    /\ distIdx' = 1
    /\ distPc' = "fwd"
    /\ UNCHANGED <<chanClosed, sent, extCancelled, pc, maxRevision,
                   lastRevision, cancelled, errors, received, watchNext,
                   memberHashKVRevisionChans, checkerVars, watches, hashVars,
                   ioVars>>

\* memberChan <- revision, for the next member of the range loop
DistributorForward ==
    /\ distPc = "fwd"
    /\ Len(memberHashKVRevisionChans[distIdx]) < MemberChanCap
    /\ memberHashKVRevisionChans' =
           [memberHashKVRevisionChans EXCEPT ![distIdx] = Append(@, distRev)]
    /\ IF distIdx < NumMembers
          THEN /\ distIdx' = distIdx + 1
               /\ distPc' = "fwd"
          ELSE /\ distIdx' = 0
               /\ distPc' = "recv"
    /\ UNCHANGED <<driverVars, extCancelled, pc, maxRevision, lastRevision,
                   cancelled, errors, received, watchNext, distRev,
                   checkerVars, watches, hashVars, ioVars>>

\* the receive reports ok == false: break
DistributorExit ==
    /\ distPc = "recv"
    /\ hashKVRevisionChan = <<>>
    /\ chanClosed
    /\ distPc' = "done"
    /\ UNCHANGED <<driverVars, extCancelled, pc, maxRevision, lastRevision,
                   cancelled, errors, received, watchNext, distRev, distIdx,
                   memberHashKVRevisionChans, checkerVars, watches, hashVars,
                   ioVars>>

\* memberHashKVRevisionChans[w] is closed: no close of it is in the program,
\* the distributor leaves its loop by break and returns
MemberChanClosed(w) == FALSE

\* wg.Wait() returns; return reports
CheckerReturn ==
    /\ ~returned
    /\ \A w \in Members : pc[w] = "done"
    /\ distPc = "done"
    /\ returned' = TRUE
    /\ UNCHANGED <<driverVars, extCancelled, pc, maxRevision, lastRevision,
                   cancelled, errors, received, watchNext, distVars, mux,
                   reports, watches, hashVars, ioVars>>

\* ------------------------------------------------------------------------
\* The fault-injection wrappers of rafthttp
\* ------------------------------------------------------------------------

\* the most calls a handler makes on the hijacked response writer
MaxWriterCalls == 2

\* the length of a request body
StreamLen == 2

\* the largest len(p) a Read is called with
MaxReadLen == 2

\* the most Read calls made on one request body: enough to read it to its
\* end one byte at a time, and twice more
MaxReads == StreamLen + 2

\* the names the failpoints are armed by
HijackResponseWriterFailPoint == "HijackResponseWriterFailPoint"
HijackResponseWriterHeaderFailPoint == "HijackResponseWriterHeaderFailPoint"
DemoDropRequestBodyFailPoint == "DemoDropRequestBodyFailPoint"

WriterFailpoints ==
    {HijackResponseWriterFailPoint, HijackResponseWriterHeaderFailPoint}
ReaderFailpoints == {DemoDropRequestBodyFailPoint}

\* hijackedStreamRoundTripper and hijackedPipelineRoundTripper
Paths == {"stream", "pipeline"}

\* the failpoint that drops the request bodies of a path: both round-trippers
\* call hijackRequestBody, whose reader consults this one
FailpointOf(path) == DemoDropRequestBodyFailPoint

\* what a handler writes: the payloads are only compared for equality
Bodies == {<<>>, <<"a">>, <<"a", "b">>}
StatusCodes == {200, 500}

\* the http.ResponseWriter given to hijackResponseWriter: none, one without
\* and one with the http.Flusher capability
ResponseWriters == {"nil", "writer", "flusher"}

\* the body of a request: byte k of it is k
Payload == [k \in 1..StreamLen |-> k]

Min2(a, b) == IF a < b THEN a ELSE b
Take(s, n) == SubSeq(s, 1, n)
Drop(s, n) == SubSeq(s, n + 1, Len(s))

\* the settings of the http.Transport embedded in the round-tripper of a
\* path, as configured before it was wrapped
TransportSettings(path) ==
    [TLSClientConfig |-> "tls", DisableKeepAlives |-> path = "pipeline"]

\* the *http.Request given to the round-tripper of a path; its Body is
\* written as the chain of readers from the outermost wrapper to the body
\* itself
Request(path, body) == [Method |-> "POST", URL |-> path, Body |-> <<body>>]

\* what RoundTrip of the embedded http.Transport may return
TransportReturns ==
    {[resp |-> "response", err |-> "nil"], [resp |-> "nil", err |-> "ErrDial"]}

\* a gofail failpoint is disarmed until a test arms it
InitFailpoints == armed = {}

InitWriterIdle ==
    /\ originalResponseWriter = "nil"
    /\ writerCalls = <<>>
    /\ underlyingCalls = <<>>
    /\ writerPanic = FALSE

\* no request was given to a round-tripper yet
InitReaderIdle ==
    /\ bodyState = [path \in Paths |-> "new"]
    /\ originalReadCloser = [path \in Paths |-> "nil"]
    /\ remaining = [path \in Paths |-> <<>>]
    /\ delivered = [path \in Paths |-> <<>>]
    /\ reads = [path \in Paths |-> <<>>]
    /\ closes = [path \in Paths |-> <<>>]
    /\ transports = [path \in Paths |->
                         [settings |-> TransportSettings(path), calls |-> <<>>]]
    /\ roundTrips = [path \in Paths |-> <<>>]

InitWrappersIdle == InitFailpoints /\ InitWriterIdle /\ InitReaderIdle

\* Failpoints().SetupHTTP(ctx, name, ...)
Arm(f) ==
    /\ f \notin armed
    /\ armed' = armed \cup {f}
    /\ UNCHANGED <<writerVars, readerVars, watchVars, hashVars>>

\* Failpoints().DeactivateHTTP(ctx, name)
Disarm(f) ==
    /\ f \in armed
    /\ armed' = armed \ {f}
    /\ UNCHANGED <<writerVars, readerVars, watchVars, hashVars>>

\* --- hijackedResponseWriter

\* hijackResponseWriter(w)
InitWriter ==
    /\ originalResponseWriter \in ResponseWriters
    /\ writerCalls = <<>>
    /\ underlyingCalls = <<>>
    /\ writerPanic = FALSE

NoArg == [code |-> 0, p |-> <<>>]
NoReturn == [n |-> 0, err |-> "nil"]

\* what Write(p) of an http.ResponseWriter may return
UnderlyingWrites(p) ==
    {[n |-> Len(p), err |-> "nil"]}
        \cup {[n |-> k, err |-> "ErrWrite"] : k \in 0..Len(p)}

\* func discardWriteData(p []byte) (int, error) { return 0, nil }
discardWriteData(p) == [n |-> 0, err |-> "nil"]

\* the handler may call the hijacked writer
CanCall == ~writerPanic /\ Len(writerCalls) < MaxWriterCalls

Called(op, arg, ret) ==
    Append(writerCalls, [op |-> op, arg |-> arg, armed |-> armed, ret |-> ret])

Reached(op, arg, ret) ==
    Append(underlyingCalls, [op |-> op, arg |-> arg, ret |-> ret])

\* Header(): return h.originalResponseWriter.Header(), a call on a nil
\* interface when there is no underlying writer
Header ==
    /\ CanCall
    /\ IF originalResponseWriter = "nil"
          THEN /\ writerPanic' = TRUE
               /\ UNCHANGED <<writerCalls, underlyingCalls>>
          ELSE /\ writerCalls' = Called("Header", NoArg, NoReturn)
               /\ underlyingCalls' = Reached("Header", NoArg, NoReturn)
               /\ UNCHANGED writerPanic
    /\ UNCHANGED <<armed, originalResponseWriter, readerVars, watchVars,
                   hashVars>>

\* Write(p): does the call reach h.originalResponseWriter.Write(p)
WriteReaches_IgnoresFailpoint(fp, orig) == orig # "nil"

WriteReaches(fp, orig) ==
    HijackResponseWriterFailPoint \notin fp /\ orig # "nil"

\* Write(p): what it returns, under being what the underlying Write returns
WriteReturn_ReportsAll(fp, orig, p, under) == [n |-> Len(p), err |-> "nil"]

WriteReturn_ReportsAllWhenArmed(fp, orig, p, under) ==
    IF HijackResponseWriterFailPoint \in fp THEN [n |-> Len(p), err |-> "nil"]
    ELSE IF orig = "nil" THEN [n |-> 0, err |-> "nil"]
    ELSE under

WriteReturn(fp, orig, p, under) ==
    IF HijackResponseWriterFailPoint \in fp THEN discardWriteData(p)
    ELSE IF orig = "nil" THEN [n |-> 0, err |-> "nil"]
    ELSE under

Write(p, under) ==
    /\ CanCall
    /\ writerCalls' =
           Called("Write", [code |-> 0, p |-> p],
                  WriteReturn(armed, originalResponseWriter, p, under))
    /\ underlyingCalls' =
           IF WriteReaches(armed, originalResponseWriter)
              THEN Reached("Write", [code |-> 0, p |-> p], under)
              ELSE underlyingCalls
    /\ UNCHANGED <<armed, originalResponseWriter, writerPanic, readerVars,
                   watchVars, hashVars>>

\* WriteHeader(statusCode): does the call reach the underlying WriteHeader
WriteHeaderReaches_BodyFailpoint(fp, orig) ==
    HijackResponseWriterFailPoint \notin fp /\ orig # "nil"

WriteHeaderReaches(fp, orig) ==
    HijackResponseWriterHeaderFailPoint \notin fp /\ orig # "nil"

WriteHeader(statusCode) ==
    /\ CanCall
    /\ writerCalls' =
           Called("WriteHeader", [code |-> statusCode, p |-> <<>>], NoReturn)
    /\ underlyingCalls' =
           IF WriteHeaderReaches(armed, originalResponseWriter)
              THEN Reached("WriteHeader", [code |-> statusCode, p |-> <<>>],
                           NoReturn)
              ELSE underlyingCalls
    /\ UNCHANGED <<armed, originalResponseWriter, writerPanic, readerVars,
                   watchVars, hashVars>>

\* Flush(): h.originalResponseWriter.(http.Flusher).Flush(), a type assertion
\* that panics when the underlying writer is nil or is no http.Flusher
Flush ==
    /\ CanCall
    /\ IF originalResponseWriter = "flusher"
          THEN /\ writerCalls' = Called("Flush", NoArg, NoReturn)
               /\ underlyingCalls' = Reached("Flush", NoArg, NoReturn)
               /\ UNCHANGED writerPanic
          ELSE /\ writerPanic' = TRUE
               /\ UNCHANGED <<writerCalls, underlyingCalls>>
    /\ UNCHANGED <<armed, originalResponseWriter, readerVars, watchVars,
                   hashVars>>

NextWriter ==
    \/ \E f \in WriterFailpoints : Arm(f)
    \/ \E f \in WriterFailpoints : Disarm(f)
    \/ Header
    \/ \E statusCode \in StatusCodes : WriteHeader(statusCode)
    \/ \E p \in Bodies : \E under \in UnderlyingWrites(p) : Write(p, under)
    \/ Flush

\* --- hijackedReadCloser and the round-trippers

\* hijackRequestBody(r):
\* r.Body = &hijackedReadCloser{originalReadCloser: r.Body}
hijackRequestBody_KeepsBody(r) == r

hijackRequestBody(r) == [r EXCEPT !.Body = <<"hijackedReadCloser">> \o @]

\* the body a request came with, hijacked or not
OriginalBody(r) == r.Body[Len(r.Body)]

\* RoundTrip(r) of the round-tripper of a path: hijackRequestBody(r) wraps
\* r.Body, whatever it is, in place, and t.Transport.RoundTrip(r) is called,
\* which starts to read the body; what it returns (under) is returned
RoundTrip(path, body) ==
    \E under \in TransportReturns :
        LET r == hijackRequestBody(Request(path, body))
        IN  /\ bodyState[path] = "new"
            /\ bodyState' = [bodyState EXCEPT ![path] = "open"]
            /\ originalReadCloser' =
                   [originalReadCloser EXCEPT ![path] = OriginalBody(r)]
            /\ remaining' =
                   [remaining EXCEPT
                       ![path] = IF body = "stream" THEN Payload ELSE <<>>]
            /\ transports' =
                   [transports EXCEPT
                       ![path].calls = Append(@, [r |-> r, ret |-> under])]
            /\ roundTrips' =
                   [roundTrips EXCEPT
                       ![path] = Append(@, [given |-> Request(path, body),
                                            r |-> r, ret |-> under])]
            /\ UNCHANGED <<armed, delivered, reads, closes, writerVars,
                           watchVars, hashVars>>

\* One Read(p) of the underlying stream, len(p) = len: it hands out the next
\* bytes, at least one and at most len of them, reports io.EOF at the end of
\* the stream (together with the last bytes when eof is set, on the next
\* call otherwise), or fails.
UnderlyingRead(rem, len, c, eof, fail) ==
    IF fail
       THEN [n |-> 0, bytes |-> <<>>, err |-> "ErrRead", rem |-> rem]
    ELSE IF rem = <<>>
       THEN [n |-> 0, bytes |-> <<>>, err |-> "EOF", rem |-> rem]
    ELSE LET k == Min2(Min2(c, len), Len(rem))
         IN  [n |-> k, bytes |-> Take(rem, k),
              err |-> IF eof /\ k = Len(rem) THEN "EOF" ELSE "nil",
              rem |-> Drop(rem, k)]

\* no call was made on the underlying stream
NotRead(rem) == [n |-> 0, bytes |-> <<>>, err |-> "nil", rem |-> rem]

\* _, err := rc.Read(make([]byte, len(p))); return 0, err
discardReadData_KeepsData(under) ==
    [n |-> under.n, bytes |-> under.bytes, err |-> under.err]

discardReadData(under) == [n |-> 0, bytes |-> <<>>, err |-> under.err]

\* Read(p): what it returns, under being what the underlying Read returns
ReadReturn_NeverDiscards(fp, orig, under) ==
    IF orig = "nil" THEN [n |-> 0, bytes |-> <<>>, err |-> "nil"]
    ELSE [n |-> under.n, bytes |-> under.bytes, err |-> under.err]

ReadReturn_AlwaysDiscards(fp, orig, under) == discardReadData(under)

ReadReturn(fp, orig, under) ==
    IF DemoDropRequestBodyFailPoint \in fp THEN discardReadData(under)
    ELSE IF orig = "nil" THEN [n |-> 0, bytes |-> <<>>, err |-> "nil"]
    ELSE [n |-> under.n, bytes |-> under.bytes, err |-> under.err]

\* Read(p) on the request body of a path.  With the failpoint armed and no
\* underlying stream, discardReadData calls Read on a nil interface.
Read(path, len, c, eof, fail) ==
    /\ bodyState[path] = "open"
    /\ Len(reads[path]) < MaxReads
    /\ IF DemoDropRequestBodyFailPoint \in armed
             /\ originalReadCloser[path] = "nil"
          THEN /\ bodyState' = [bodyState EXCEPT ![path] = "panic"]
               /\ UNCHANGED <<remaining, delivered, reads>>
          ELSE LET called == originalReadCloser[path] # "nil"
                   under == IF called
                               THEN UnderlyingRead(remaining[path], len, c,
                                                   eof, fail)
                               ELSE NotRead(remaining[path])
                   ret == ReadReturn(armed, originalReadCloser[path], under)
               IN  /\ remaining' = [remaining EXCEPT ![path] = under.rem]
                   /\ delivered' = [delivered EXCEPT ![path] = @ \o ret.bytes]
                   /\ reads' = [reads EXCEPT ![path] =
                          Append(@, [len |-> len, armed |-> armed,
                                     n |-> ret.n, got |-> ret.bytes,
                                     err |-> ret.err, called |-> called,
                                     un |-> under.n, took |-> under.bytes,
                                     uerr |-> under.err])]
                   /\ UNCHANGED bodyState
    /\ UNCHANGED <<armed, originalReadCloser, closes, transports, roundTrips,
                   writerVars, watchVars, hashVars>>

\* Close(): nil without an underlying stream, otherwise what its Close returns
CloseReturn(orig, under) == IF orig = "nil" THEN "nil" ELSE under

Close(path, under) ==
    /\ bodyState[path] = "open"
    /\ bodyState' = [bodyState EXCEPT ![path] = "closed"]
    /\ closes' = [closes EXCEPT ![path] =
           Append(@, [err |-> CloseReturn(originalReadCloser[path], under),
                      called |-> originalReadCloser[path] # "nil",
                      uerr |-> under])]
    /\ UNCHANGED <<armed, originalReadCloser, remaining, delivered, reads,
                   transports, roundTrips, writerVars, watchVars, hashVars>>

\* the caller reads the body until a Read returns an error (io.EOF or
\* another one)
LoopRead(path, len, c, eof, fail) ==
    /\ \A i \in 1..Len(reads[path]) : reads[path][i].err = "nil"
    /\ Read(path, len, c, eof, fail)

\* the only request of a run, sent through either round-tripper
OnlyRoundTrip(path, body) ==
    /\ \A other \in Paths : bodyState[other] = "new"
    /\ RoundTrip(path, body)

\* One request, its body read with every buffer length and every behaviour
\* of the underlying stream.
NextReader ==
    \/ \E f \in ReaderFailpoints : Arm(f)
    \/ \E f \in ReaderFailpoints : Disarm(f)
    \/ \E path \in Paths : \E body \in {"nil", "stream"} :
          OnlyRoundTrip(path, body)
    \/ \E path \in Paths : \E len \in 1..MaxReadLen : \E c \in 1..MaxReadLen :
          \E eof \in BOOLEAN : \E fail \in BOOLEAN :
              LoopRead(path, len, c, eof, fail)
    \/ \E path \in Paths : \E under \in {"nil", "ErrClose"} : Close(path, under)

\* a request with a body
RoundTripWithBody(path) == RoundTrip(path, "stream")

\* the transport reads the body with a buffer of len bytes, which the
\* underlying stream fills as far as it can
ReadBody(path, len) == LoopRead(path, len, len, TRUE, FALSE)

CloseBody(path) == Close(path, "nil")

\* A request through each of the two round-trippers at the same time.
NextRoundTrip ==
    \/ \E path \in Paths : Arm(FailpointOf(path))
    \/ \E path \in Paths : Disarm(FailpointOf(path))
    \/ \E path \in Paths : RoundTripWithBody(path)
    \/ \E path \in Paths : \E len \in 1..MaxReadLen : ReadBody(path, len)
    \/ \E path \in Paths : CloseBody(path)

\* ------------------------------------------------------------------------
\* CheckHashKV, the error-returning verifier
\* ------------------------------------------------------------------------

\* the largest len(clus.Procs) CheckHashKV is called with
MaxHashMembers == 3

\* the largest revision requested, and the largest header revision answered
MaxHashRev == 2

\* The fields of a HashKVResponse are only ever compared for equality: two
\* values of each are enough to tell equal from different.
Hashes == {"0xCAFE", "0xBEEF"}
HashRevisions == {1, 2}
CompactRevisions == {0, 1}
HeaderRevisions == 1..MaxHashRev

\* clientv3.HashKVResponse: Header.Revision, Hash, HashRevision, CompactRevision
HashKVResponses ==
    [Revision : HeaderRevisions, Hash : Hashes,
     HashRevision : HashRevisions, CompactRevision : CompactRevisions]

NoResponse ==
    [Revision |-> 0, Hash |-> "", HashRevision |-> 0, CompactRevision |-> 0]

\* return nil
NoError == [msg |-> "nil", args |-> <<>>]

\* the err of clientv3.New or of c.HashKV, returned as it is
ErrRPC == [msg |-> "rpc", args |-> <<>>]

\* fmt.Errorf("max revision between nodes should be the same. Want %v, get %v", ...)
ErrRevision(want, get) ==
    [msg |-> "max revision between nodes should be the same", args |-> <<want, get>>]

\* fmt.Errorf("hashRevision mismatch") and the two others: no argument
ErrHashRevision == [msg |-> "hashRevision mismatch", args |-> <<>>]
ErrCompactRevision == [msg |-> "compactRevision mismatch", args |-> <<>>]
ErrHash == [msg |-> "hash mismatch", args |-> <<>>]

MismatchErrors == {ErrHashRevision, ErrCompactRevision, ErrHash}

InitHashIdle ==
    /\ hpc = "done"
    /\ hn = 0
    /\ hreq = 0
    /\ rev = 0
    /\ hashKVs = <<>>
    /\ hidx = 0
    /\ responses = <<>>
    /\ compared = 0
    /\ herr = NoError

\* CheckHashKV(ctx, clus, rev, baseTime, ids) is called
InitHash ==
    /\ hpc = "new"
    /\ hn \in 1..MaxHashMembers
    /\ hreq \in 0..MaxHashRev
    /\ rev = hreq
    /\ hashKVs = <<>>
    /\ hidx = 0
    /\ responses = <<>>
    /\ compared = 0
    /\ herr = NoError

\* c, err := clientv3.New(...); if err != nil { return err }
HashNewClient(ok) ==
    /\ hpc = "new"
    /\ IF ok
          THEN /\ hpc' = IF rev = 0 THEN "first" ELSE "probe"
               /\ hidx' = 1
               /\ herr' = herr
          ELSE /\ hpc' = "done"
               /\ hidx' = hidx
               /\ herr' = ErrRPC
    /\ UNCHANGED <<hn, hreq, rev, hashKVs, responses, compared, watchVars, ioVars>>

\* one answer of getHashKV, as CheckHashKV saw it
Answer(member, asked, ok, resp) ==
    [member |-> member, asked |-> asked, ok |-> ok,
     resp |-> IF ok THEN resp ELSE NoResponse]

\* if rev == 0: getHashKV(ctx, c, clus.EndpointsGRPC()[0], rev)
HashFirstProbe(ok, resp) ==
    /\ hpc = "first"
    /\ responses' = Append(responses, Answer(1, rev, ok, resp))
    /\ IF ok
          THEN /\ rev' = resp.Revision
               /\ hashKVs' = Append(hashKVs, resp)
               /\ hpc' = "probe"
               /\ herr' = herr
          ELSE /\ hpc' = "done"
               /\ herr' = ErrRPC
               /\ UNCHANGED <<rev, hashKVs>>
    /\ UNCHANGED <<hn, hreq, hidx, compared, watchVars, ioVars>>

\* if hashKV.Header.Revision != rev { return fmt.Errorf(...) }
RevisionCheck_AgainstArgument(header, want) ==
    IF header # hreq THEN ErrRevision(hreq, header) ELSE NoError

RevisionCheck_Never(header, want) == NoError

RevisionCheck(header, want) ==
    IF header # want THEN ErrRevision(want, header) ELSE NoError

\* for _, member := range clus.Procs: one iteration
HashProbeMember(ok, resp) ==
    /\ hpc = "probe"
    /\ hidx <= hn
    /\ responses' = Append(responses, Answer(hidx, rev, ok, resp))
    /\ LET e == IF ok THEN RevisionCheck(resp.Revision, rev) ELSE ErrRPC
       IN  IF e # NoError
              THEN /\ hpc' = "done"
                   /\ herr' = e
                   /\ UNCHANGED <<hashKVs, hidx>>
              ELSE /\ hashKVs' = Append(hashKVs, resp)
                   /\ herr' = herr
                   /\ IF hidx < hn
                         THEN /\ hidx' = hidx + 1
                              /\ hpc' = "probe"
                         ELSE /\ hidx' = 1
                              /\ hpc' = "compare"
    /\ UNCHANGED <<hn, hreq, rev, compared, watchVars, ioVars>>

\* The body of the comparison loop for i (Go's hashKVs[i-1] and hashKVs[i] are
\* kvs[i] and kvs[i+1] here, sequences starting at 1).
CompareAt_FixedIndex(kvs, i) ==
    IF kvs[i].HashRevision # kvs[i + 1].HashRevision THEN ErrHashRevision
    ELSE IF kvs[i].CompactRevision # kvs[i + 1].CompactRevision THEN ErrCompactRevision
    ELSE IF kvs[i].Hash # kvs[2].Hash THEN ErrHash
    ELSE NoError

CompareAt_HashFirst(kvs, i) ==
    IF kvs[i].Hash # kvs[i + 1].Hash THEN ErrHash
    ELSE IF kvs[i].HashRevision # kvs[i + 1].HashRevision THEN ErrHashRevision
    ELSE IF kvs[i].CompactRevision # kvs[i + 1].CompactRevision THEN ErrCompactRevision
    ELSE NoError

CompareAt_WrongField(kvs, i) ==
    IF kvs[i].HashRevision # kvs[i + 1].HashRevision THEN ErrCompactRevision
    ELSE IF kvs[i].CompactRevision # kvs[i + 1].CompactRevision THEN ErrHashRevision
    ELSE IF kvs[i].Hash # kvs[i + 1].Hash THEN ErrHash
    ELSE NoError

CompareAt(kvs, i) ==
    IF kvs[i].HashRevision # kvs[i + 1].HashRevision THEN ErrHashRevision
    ELSE IF kvs[i].CompactRevision # kvs[i + 1].CompactRevision THEN ErrCompactRevision
    ELSE IF kvs[i].Hash # kvs[i + 1].Hash THEN ErrHash
    ELSE NoError

\* for i := 1; i < len(clus.Procs); i++: one iteration, or the return nil
HashCompare ==
    /\ hpc = "compare"
    /\ IF hidx < hn
          THEN LET e == CompareAt(hashKVs, hidx)
               IN  /\ compared' = compared + 1
                   /\ IF e # NoError
                         THEN /\ hpc' = "done"
                              /\ herr' = e
                              /\ hidx' = hidx
                         ELSE /\ hpc' = "compare"
                              /\ herr' = herr
                              /\ hidx' = hidx + 1
          ELSE /\ hpc' = "done"
               /\ herr' = NoError
               /\ UNCHANGED <<hidx, compared>>
    /\ UNCHANGED <<hn, hreq, rev, hashKVs, responses, watchVars, ioVars>>

NextHash ==
    \/ \E ok \in BOOLEAN : HashNewClient(ok)
    \/ \E ok \in BOOLEAN : \E resp \in HashKVResponses : HashFirstProbe(ok, resp)
    \/ \E ok \in BOOLEAN : \E resp \in HashKVResponses : HashProbeMember(ok, resp)
    \/ HashCompare

InitCheckHashKV == InitWatch /\ InitHash /\ InitWrappersIdle

SpecHash == InitCheckHashKV /\ [][NextHash]_vars

\* ------------------------------------------------------------------------
\* CheckHashKV, the two variants that fail the test through require: the one
\* that returns the client reports, and the two-pass one of kvhash.go
\* ------------------------------------------------------------------------

\* require.NoError(t, err) failed: the test stops there
FailNoError == [msg |-> "require.NoError", args |-> <<>>]

\* require.Equalf(t, expected, actual, msg) failed: the test stops there
FailEqual(msg, expected, actual) == [msg |-> msg, args |-> <<expected, actual>>]

\* HashKVs := make([]*clientv3.HashKVResponse, len(clus.Procs)); the variant
\* is the position the call starts at
InitHashVariants ==
    /\ hpc \in {"report", "pass1"}
    /\ hn \in 1..MaxHashMembers
    /\ hreq \in 0..MaxHashRev
    /\ rev = hreq
    /\ hashKVs = [i \in 1..hn |-> NoResponse]
    /\ hidx = 1
    /\ responses = <<>>
    /\ compared = 0
    /\ herr = NoError

\* One iteration of a loop over clus.Procs that stores the answer in
\* HashKVs[i]; after the last member the call goes on at position after.
StoreAnswer(ok, resp, after) ==
    /\ responses' = Append(responses, Answer(hidx, rev, ok, resp))
    /\ IF ok
          THEN /\ hashKVs' = [hashKVs EXCEPT ![hidx] = resp]
               /\ herr' = herr
               /\ IF hidx < hn
                     THEN /\ hidx' = hidx + 1
                          /\ hpc' = hpc
                     ELSE /\ hidx' = 1
                          /\ hpc' = after
          ELSE /\ hpc' = "done"
               /\ herr' = FailNoError
               /\ UNCHANGED <<hashKVs, hidx>>

\* the report-returning variant: for i, member := range clus.Procs
ReportProbeMember(ok, resp) ==
    /\ hpc = "report"
    /\ StoreAnswer(ok, resp, "require")
    /\ UNCHANGED <<hn, hreq, rev, compared, watchVars, ioVars>>

\* if maxRevision < resp[0].Header.Revision { maxRevision = ... }, over the
\* answers of the first pass
RECURSIVE MaxHeaderRevision(_)
MaxHeaderRevision(kvs) ==
    IF kvs = <<>> THEN 0
    ELSE LET m == MaxHeaderRevision(Tail(kvs))
         IN  IF m < Head(kvs).Revision THEN Head(kvs).Revision ELSE m

\* kvhash.go, first pass: one iteration; after the last one rev = maxRevision
FirstPassProbe(ok, resp) ==
    /\ hpc = "pass1"
    /\ StoreAnswer(ok, resp, "pass2")
    /\ rev' = IF hpc' = "pass2" THEN MaxHeaderRevision(hashKVs') ELSE rev
    /\ UNCHANGED <<hn, hreq, compared, watchVars, ioVars>>

\* kvhash.go, second pass: one iteration, every member asked at rev
SecondPassProbe(ok, resp) ==
    /\ hpc = "pass2"
    /\ StoreAnswer(ok, resp, "require")
    /\ UNCHANGED <<hn, hreq, rev, compared, watchVars, ioVars>>

\* The body of the comparison loop of both variants for i (Go's HashKVs[i-1],
\* HashKVs[i] and HashKVs[1] are kvs[i], kvs[i+1] and kvs[2] here).
RequireEqualAt(kvs, i) ==
    IF kvs[i].HashRevision # kvs[i + 1].HashRevision
       THEN FailEqual("HashRevision mismatch",
                      kvs[i].HashRevision, kvs[i + 1].HashRevision)
    ELSE IF kvs[i].CompactRevision # kvs[i + 1].CompactRevision
       THEN FailEqual("CompactRevision mismatch",
                      kvs[i].CompactRevision, kvs[i + 1].CompactRevision)
    ELSE IF kvs[i].Hash # kvs[2].Hash
       THEN FailEqual("Hash mismatch", kvs[i].Hash, kvs[2].Hash)
    ELSE NoError

\* for i := 1; i < len(clus.Procs); i++: one iteration, or the return
RequireEqualLoop ==
    /\ hpc = "require"
    /\ IF hidx < hn
          THEN LET e == RequireEqualAt(hashKVs, hidx)
               IN  /\ compared' = compared + 1
                   /\ IF e # NoError
                         THEN /\ hpc' = "done"
                              /\ herr' = e
                              /\ hidx' = hidx
                         ELSE /\ hpc' = "require"
                              /\ herr' = herr
                              /\ hidx' = hidx + 1
          ELSE /\ hpc' = "done"
               /\ herr' = NoError
               /\ UNCHANGED <<hidx, compared>>
    /\ UNCHANGED <<hn, hreq, rev, hashKVs, responses, watchVars, ioVars>>

\* what a member answers in the first pass: only its header revision is used
FirstPassResponse(r) ==
    [Revision |-> r, Hash |-> "0xCAFE", HashRevision |-> 1,
     CompactRevision |-> 0]

NextHashVariants ==
    \/ \E ok \in BOOLEAN : \E resp \in HashKVResponses :
           ReportProbeMember(ok, resp)
    \/ \E ok \in BOOLEAN : \E r \in HeaderRevisions :
           FirstPassProbe(ok, FirstPassResponse(r))
    \/ \E ok \in BOOLEAN : \E resp \in HashKVResponses :
           SecondPassProbe(ok, resp)
    \/ RequireEqualLoop

InitCheckHashKVVariants == InitWatch /\ InitHashVariants /\ InitWrappersIdle

SpecHashVariants == InitCheckHashKVVariants /\ [][NextHashVariants]_vars

Init == InitWatch /\ InitHashIdle /\ InitWrappersIdle

Next ==
    \/ \E v \in Targets : DriverSend(v)
    \/ DriverClose
    \/ ExternalCancel
    \/ \E w \in Members : WorkerCtxDone(w)
    \/ \E w \in Members : WorkerRecvTarget(w)
    \/ \E w \in Members : WorkerRecvClosed(w)
    \/ \E w \in Members : \E k \in 2..MaxRev : WorkerWatchEvents(w, k)
    \/ \E w \in Members : WorkerWatchProgress(w)
    \/ \E w \in Members : WorkerWatchClosed(w)
    \/ \E w \in Members : \E c \in 0..MaxRev : WorkerWatchCanceled(w, c)
    \/ \E w \in Members : \E k \in {0} \cup (2..MaxRev) : WorkerWatchError(w, k)
    \/ \E w \in Members : WorkerLock(w)
    \/ \E w \in Members : WorkerReport(w)
    \/ DistributorRecv
    \/ DistributorForward
    \/ DistributorExit
    \/ CheckerReturn

Spec == Init /\ [][Next]_vars

\* The subscription ends because the worker's ctx, which c.Watch was given,
\* is done.
WorkerWatchClosedByCtx(w) ==
    /\ CtxDone(w)
    /\ WorkerWatchClosed(w)

\* The watch checker when nothing interrupts it: no deadline, and every
\* member's events are delivered without a closed, cancelled or failed
\* subscription.
NextUninterrupted ==
    \/ \E v \in Targets : DriverSend(v)
    \/ DriverClose
    \/ \E w \in Members : WorkerCtxDone(w)
    \/ \E w \in Members : WorkerRecvTarget(w)
    \/ \E w \in Members : WorkerRecvClosed(w)
    \/ \E w \in Members : \E k \in 2..MaxRev : WorkerWatchEvents(w, k)
    \/ \E w \in Members : WorkerWatchProgress(w)
    \/ \E w \in Members : WorkerWatchClosedByCtx(w)
    \/ \E w \in Members : WorkerLock(w)
    \/ \E w \in Members : WorkerReport(w)
    \/ DistributorRecv
    \/ DistributorForward
    \/ DistributorExit
    \/ CheckerReturn

SpecUninterrupted == Init /\ [][NextUninterrupted]_vars

\* a handler writes its response through a hijacked response writer
InitHijackedWriter ==
    InitWatch /\ InitHashIdle /\ InitFailpoints /\ InitReaderIdle /\ InitWriter

SpecWriter == InitHijackedWriter /\ [][NextWriter]_vars

\* requests are sent through the two hijacked round-trippers
SpecReader == Init /\ [][NextReader]_vars

SpecRoundTrip == Init /\ [][NextRoundTrip]_vars

\* the larger of two revisions
Max2(a, b) == IF a > b THEN a ELSE b

\* Two runs of checkKVHash side by side, on members with the same event log
\* (revisions 2..MaxRev) and with the same target: the subscription of
\* Resumed is cancelled by compactions, the one of Plain never is.  Both
\* receive the target before any event, a response carries the events of one
\* revision, and Plain takes its ctx.Done() case as soon as it is ready.
Resumed == 1
Plain == 2
Runs == {Resumed, Plain}

BothHaveTarget == \A w \in Runs : received[w] # <<>>

\* the first revision of the log the open subscription of w has to deliver
NextEvent(w) == Max2(watchNext[w], 2)

\* the driver sends the target, once for each run
RunsSendTarget(v) ==
    /\ IF sent = <<>> THEN TRUE ELSE v = sent[1]
    /\ DriverSend(v)

RunsRecvTarget(w) ==
    /\ received[w] = <<>>
    /\ WorkerRecvTarget(w)

RunsWatchEvents(w) ==
    /\ BothHaveTarget
    /\ ~CtxDone(w)
    /\ NextEvent(w) <= MaxRev
    /\ WorkerWatchEvents(w, NextEvent(w))

\* a compaction may cancel the subscription of Resumed at any time
RunsWatchCanceled(compactRevision) ==
    /\ compactRevision <= MaxRev
    /\ WorkerWatchCanceled(Resumed, compactRevision)

NextResumption ==
    \/ \E v \in Targets : RunsSendTarget(v)
    \/ \E w \in Runs : RunsRecvTarget(w)
    \/ \E w \in Runs : RunsWatchEvents(w)
    \/ \E c \in 0..MaxRev : RunsWatchCanceled(c)
    \/ \E w \in Runs : WorkerCtxDone(w)
    \/ \E w \in Runs : WorkerLock(w)
    \/ \E w \in Runs : WorkerReport(w)

SpecResumption == Init /\ [][NextResumption]_vars

\* The workers with the log of their c.Watch calls kept, up to the return of
\* checkKVHash: targets, events, closed watch channels and compaction cancels,
\* in any order.
NextSubscriptions ==
    \/ \E v \in Targets : DriverSend(v)
    \/ DriverClose
    \/ \E w \in Members : WorkerCtxDone(w)
    \/ \E w \in Members : WorkerRecvTarget(w)
    \/ \E w \in Members : WorkerRecvClosed(w)
    \/ \E w \in Members : \E k \in 2..MaxRev : WorkerWatchEvents(w, k)
    \/ \E w \in Members : WorkerWatchClosedLogged(w)
    \/ \E w \in Members : \E c \in 0..MaxRev : WorkerWatchCanceledLogged(w, c)

SpecSubscriptions == Init /\ [][NextSubscriptions]_vars

\* checkKVHash under every schedule of its select: whenever several cases
\* are ready the runtime picks one of them at random, so a case that stays
\* ready is taken sooner or later.  The case <-ctx.Done() stays ready once
\* the context is done.
NextFair ==
    \/ \E v \in Targets : DriverSend(v)
    \/ DriverClose
    \/ ExternalCancel
    \/ \E w \in Members : WorkerCtxDone(w)
    \/ \E w \in Members : WorkerRecvTarget(w)
    \/ \E w \in Members : WorkerRecvClosed(w)
    \/ \E w \in Members : \E k \in 2..MaxRev : WorkerWatchEvents(w, k)
    \/ \E w \in Members : WorkerWatchClosed(w)
    \/ \E w \in Members : \E c \in 0..MaxRev : WorkerWatchCanceled(w, c)

SpecFair ==
    /\ Init
    /\ [][NextFair]_vars
    /\ \A w \in Members : WF_vars(WorkerCtxDone(w))

\* a worker whose ctx is not done yet receives a target
WorkerRecvTargetInTime(w) ==
    /\ ~CtxDone(w)
    /\ WorkerRecvTarget(w)

\* The checker on a quiet cluster (no event is delivered) with a driver that
\* sends the target 1 up to ManyTargets times before it closes the stream;
\* a worker whose ctx is done takes its ctx.Done() case next.
NextManyTargets ==
    \/ DriverSendMany(1)
    \/ DriverClose
    \/ \E w \in Members : WorkerCtxDone(w)
    \/ \E w \in Members : WorkerRecvTargetInTime(w)
    \/ \E w \in Members : WorkerRecvClosed(w)
    \/ \E w \in Members : WorkerLock(w)
    \/ \E w \in Members : WorkerReport(w)
    \/ DistributorRecv
    \/ DistributorForward
    \/ DistributorExit
    \/ CheckerReturn

SpecManyTargets == Init /\ [][NextManyTargets]_vars

\* ------------------------------------------------------------------------
\* Properties of the watch checker (specifications Spec, SpecUninterrupted)
\* ------------------------------------------------------------------------

\* checkKVHash of member w has returned
Exited(w) == pc[w] \in {"report", "locked", "done"}

\* the worker reported that it did not collect all events up to its target
ReportedNotAllEvents(w) == \E e \in errors[w] : e.kind = "notAllEvents"

\* C1 (as specified; the code violates it): a worker that has exited either observed a
\* revision at least as large as the largest target it ever received, or
\* reported a completeness violation.
C1_ExitsAtMaxTargetOrReports ==
    \A w \in Members :
        Exited(w) =>
            \/ lastRevision[w] >= SeqMax(received[w])
            \/ ReportedNotAllEvents(w)

\* C2 (as specified; the code violates it): the driver sent an increasing sequence of
\* targets and closed the stream, every member's events were delivered
\* without interruption up to a revision larger than every target, and
\* ClusterKVHashChecks returned: no worker reported anything.
C2_NoViolationWhenUninterrupted ==
    (/\ returned
     /\ chanClosed
     /\ sent # <<>>
     /\ StrictlyIncreasing(sent)
     /\ \A w \in Members : lastRevision[w] = MaxRev)
    => \A w \in Members : errors[w] = {}

\* C3 (as specified; the code violates it): what a worker has received is, value for value
\* and in order, what the driver sent so far.
C3_WorkerSeesEveryTargetInOrder ==
    \A w \in Members : IsPrefix(received[w], sent)

\* C9: a worker that has exited with maxRevision set and lastRevision below
\* it has reported the violation, with the revision it got and the revision
\* expected, whether its own cancel() or the caller's ctx ended it.
C9_GapReportedAtExit ==
    \A w \in Members :
        (Exited(w) /\ maxRevision[w] # 0 /\ lastRevision[w] < maxRevision[w])
        => ErrNotAllEvents(lastRevision[w], maxRevision[w]) \in errors[w]

\* the deadline ends a worker that is still below its target
C9_Witness ==
    \E w \in Members :
        /\ Exited(w)
        /\ extCancelled /\ ~cancelled[w]
        /\ maxRevision[w] = 2 /\ lastRevision[w] = 1
        /\ ErrNotAllEvents(1, 2) \in errors[w]

\* the two reports of the final check
FinalCheckKinds == {"maxRevisionNotSet", "notAllEvents"}

\* C10 (as specified; the code violates it): a worker that has exited without ever receiving
\* a target reported nothing in its final check.
C10_NoTargetNoReport ==
    \A w \in Members :
        (Exited(w) /\ received[w] = <<>>)
        => \A e \in errors[w] : e.kind \notin FinalCheckKinds

\* C10 (as the code has it): a worker that has exited without ever receiving a target
\* reported "max revision not set", and no gap between the revision got and
\* the revision expected.
C10_NoTargetReportsNotSet ==
    \A w \in Members :
        (Exited(w) /\ received[w] = <<>>)
        => /\ ErrMaxRevisionNotSet \in errors[w]
           /\ ~ReportedNotAllEvents(w)

\* the target stream closed before the worker received anything, and the
\* worker cancelled itself
C10_Witness ==
    \E w \in Members :
        /\ Exited(w)
        /\ received[w] = <<>>
        /\ chanClosed /\ cancelled[w] /\ ~extCancelled

\* C11: a subscription cancelled with compaction revision c makes the worker
\* report nothing, raise lastRevision to c when c is larger and leave it
\* otherwise, keep maxRevision, stay in its loop, and open the next
\* subscription at max(lastRevision, c) + 1.
C11_CompactionCancelResumes ==
    [][\A w \in Members : \A c \in 0..MaxRev :
          WorkerWatchCanceled(w, c) =>
              /\ errors' = errors
              /\ maxRevision' = maxRevision
              /\ lastRevision'[w] = Max2(lastRevision[w], c)
              /\ watchNext'[w] = Max2(lastRevision[w], c) + 1
              /\ pc'[w] = "select"
              /\ cancelled' = cancelled]_vars

\* A worker at or beyond its target that has not asked for its own
\* cancellation: every other response re-checks the target, so only a
\* compaction cancel (here of revision 3, past the target 2) leads here.  The
\* next subscription starts at 4.
C11_Witness ==
    \E w \in Members :
        /\ pc[w] = "select"
        /\ maxRevision[w] = 2 /\ lastRevision[w] = 3 /\ watchNext[w] = 4
        /\ ~cancelled[w] /\ ~extCancelled
        /\ errors[w] = {}

ReportedWatchError(w) == ErrWatchStream \in errors[w]

\* C13 (as specified; the code violates it): once a worker has reported a
\* subscription error that is not a cancellation, it handles no further
\* event or target and does not ask for its own cancellation any more.
C13_WatchErrorIsFatal ==
    [][\A w \in Members :
          ReportedWatchError(w) =>
              /\ lastRevision'[w] = lastRevision[w]
              /\ maxRevision'[w] = maxRevision[w]
              /\ received'[w] = received[w]
              /\ cancelled'[w] = cancelled[w]]_vars

\* a step of the distributor goroutine
DistributorStep == DistributorRecv \/ DistributorForward \/ DistributorExit

\* C14 (as specified; the code violates it): once every worker has exited,
\* nothing but the checker's own steps stands between it and its return:
\* either ClusterKVHashChecks can return, or its distributor goroutine can
\* take a step, without the driver doing anything.
C14_ReturnsOnceWorkersExited ==
    ((\A w \in Members : pc[w] = "done") /\ ~returned)
    => (ENABLED CheckerReturn \/ ENABLED DistributorStep)

\* C15: a worker that has received at least one target calls cancel() on
\* its own ctx only at a moment when lastRevision >= maxRevision.
C15_OwnCancelOnlyAtTarget ==
    [][\A w \in Members :
          (~cancelled[w] /\ cancelled'[w] /\ received'[w] # <<>>)
          => lastRevision'[w] >= maxRevision'[w]]_vars

\* a worker that received the target 2 while at revision 1, went on
\* watching, and cancelled itself on the events of revision 3
C15_Witness ==
    \E w \in Members :
        /\ pc[w] = "select"
        /\ received[w] = <<2>>
        /\ cancelled[w] /\ ~extCancelled
        /\ maxRevision[w] = 2 /\ lastRevision[w] = 3
        /\ errors[w] = {}

\* C21 (as specified; the code violates it): a worker that receives the
\* target v has max(maxRevision, v) as its maxRevision afterwards, and no step
\* ever lowers a worker's maxRevision.
C21_MaxRevisionIsTheMaximum ==
    [][\A w \in Members :
          /\ maxRevision'[w] >= maxRevision[w]
          /\ WorkerRecvTarget(w) =>
                 maxRevision'[w] =
                     Max2(maxRevision[w], Head(hashKVRevisionChan))]_vars

\* the call of c.Watch that opened the subscription worker w has now
LastWatch(w) == watches[w][Len(watches[w])]

\* C22: the first subscription of a worker starts at 2, one past the initial
\* lastRevision 1, and every re-subscription, after a closed watch channel
\* or after a compaction cancel, starts one past the lastRevision the worker
\* has then; the one after a closed watch channel changes neither
\* lastRevision nor maxRevision, reports nothing and asks for no
\* cancellation.
C22_SubscribesAfterLastRevision ==
    /\ \A w \in Members :
           /\ watches[w] = <<[after |-> "first", last |-> 1, start |-> 2]>>
           /\ watchNext[w] = 2
    /\ [][\A w \in Members :
             Len(watches'[w]) > Len(watches[w]) =>
                 /\ LastWatch(w)'.last = lastRevision'[w]
                 /\ LastWatch(w)'.start = lastRevision'[w] + 1
                 /\ watchNext'[w] = LastWatch(w)'.start
                 /\ LastWatch(w)'.after = "closed" =>
                        /\ lastRevision' = lastRevision
                        /\ maxRevision' = maxRevision
                        /\ errors' = errors
                        /\ cancelled' = cancelled
                        /\ pc' = pc]_vars

\* a worker with the target 2 that observed revision 3 and whose watch
\* channel was then closed: the subscription open now starts at 4
C22_Witness ==
    \E w \in Members :
        /\ pc[w] = "select"
        /\ LastWatch(w) = [after |-> "closed", last |-> 3, start |-> 4]
        /\ maxRevision[w] = 2 /\ lastRevision[w] = 3 /\ watchNext[w] = 4
        /\ errors[w] = {}

\* C23 (as specified; the code violates it): once the distributor has seen
\* the closed target stream and left its loop, every worker's queue holds
\* the values the distributor forwarded and is closed.
C23_ClosurePropagatedToWorkerQueues ==
    distPc = "done" =>
        \A w \in Members :
            /\ memberHashKVRevisionChans[w] = memberHashKVRevisionChans[1]
            /\ MemberChanClosed(w)

\* C24 (as specified; the code violates it): the distributor is never
\* blocked for good on a worker's queue.  Once the driver has closed the
\* stream and the workers have exited, either the distributor can take a
\* step (its pending send to a worker's queue completes, or it sees the
\* closed stream) or ClusterKVHashChecks can return, however many targets
\* the driver sent.
C24_DistributorNeverBlockedForGood ==
    (chanClosed /\ (\A w \in Members : pc[w] = "done") /\ ~returned)
    => (ENABLED DistributorStep \/ ENABLED CheckerReturn)

\* the workers that hold mux and are about to write their report slot
InCriticalSection == {w \in Members : pc[w] = "locked"}

\* C25: ClusterKVHashChecks returns only when every worker is done; each
\* report slot is written at most once, by the worker of the same index,
\* after its checkKVHash returned and while it holds mux, and exactly once
\* by the time of the return; no two workers are between Lock and Unlock
\* together, and none is when the caller has the reports.
C25_ReportSlotsWrittenOnceUnderMux ==
    /\ [](/\ Cardinality(InCriticalSection) <= 1
          /\ \A w \in Members :
                 /\ reports[w] \in {<<>>, <<w>>}
                 /\ pc[w] = "locked" => mux = w
          /\ returned =>
                 /\ InCriticalSection = {}
                 /\ \A w \in Members : pc[w] = "done" /\ reports[w] = <<w>>)
    /\ [][\A w \in Members :
             reports'[w] # reports[w] =>
                 /\ pc[w] = "locked" /\ mux = w
                 /\ \A v \in Members \ {w} : reports'[v] = reports[v]]_vars

\* ClusterKVHashChecks has returned with every slot written
C25_Witness ==
    /\ returned
    /\ mux = 0
    /\ \A w \in Members : reports[w] = <<w>>

\* what worker w keeps for itself: its position and the locals of checkKVHash
WorkerState(w) ==
    <<pc[w], maxRevision[w], lastRevision[w], cancelled[w], errors[w],
      received[w], watchNext[w]>>

\* a step of the goroutine of worker w
OwnStep(w) ==
    \/ WorkerCtxDone(w)
    \/ WorkerRecvTarget(w)
    \/ WorkerRecvClosed(w)
    \/ \E k \in 2..MaxRev : WorkerWatchEvents(w, k)
    \/ WorkerWatchProgress(w)
    \/ WorkerWatchClosed(w)
    \/ \E c \in 0..MaxRev : WorkerWatchCanceled(w, c)
    \/ \E k \in {0} \cup (2..MaxRev) : WorkerWatchError(w, k)
    \/ WorkerLock(w)
    \/ WorkerReport(w)

\* C26: lastRevision and maxRevision of a worker change only in a step of
\* that worker; the step in which a worker calls its own cancel() leaves the
\* state and the ctx of every other worker as they were; and a worker's ctx
\* becomes done either by its own cancel() or by the cancellation of the
\* caller's ctx, which makes the ctx of every worker done.
C26_WorkersAreIndependent ==
    [][\A w \in Members :
          /\ (lastRevision'[w] # lastRevision[w]
                 \/ maxRevision'[w] # maxRevision[w]) => OwnStep(w)
          /\ (cancelled'[w] /\ ~cancelled[w]) =>
                 \A v \in Members \ {w} :
                     /\ WorkerState(v)' = WorkerState(v)
                     /\ CtxDone(v)' = CtxDone(v)
          /\ (CtxDone(w)' /\ ~CtxDone(w)) =>
                 \/ cancelled'[w] /\ OwnStep(w)
                 \/ ExternalCancel /\ \A v \in Members : CtxDone(v)']_vars

\* one worker reached its target, cancelled itself and is done, while
\* another, which has no target yet and is at another revision, is still
\* watching with a live ctx
C26_Witness ==
    \E w, v \in Members :
        /\ pc[w] = "done" /\ cancelled[w]
        /\ maxRevision[w] = 2 /\ lastRevision[w] = 3
        /\ pc[v] = "select" /\ ~CtxDone(v)
        /\ maxRevision[v] = 0 /\ lastRevision[v] = 2

\* ------------------------------------------------------------------------
\* Properties of CheckHashKV (specification SpecHash)
\* ------------------------------------------------------------------------

\* the answers of the loop over clus.Procs (without the probe made for rev == 0)
MemberAnswers ==
    IF hreq = 0 /\ responses # <<>> THEN Tail(responses) ELSE responses

\* every member was probed, answered, and its header revision is the one asked
AllMembersAnswered ==
    /\ Len(MemberAnswers) = hn
    /\ \A k \in 1..hn :
          /\ MemberAnswers[k].ok
          /\ MemberAnswers[k].resp.Revision = rev

SameFields(a, b) ==
    /\ a.Hash = b.Hash
    /\ a.HashRevision = b.HashRevision
    /\ a.CompactRevision = b.CompactRevision

Fields == {"Hash", "HashRevision", "CompactRevision"}

\* a and b differ in field f and in no other of the three
DiffersOnlyIn(a, b, f) ==
    /\ a[f] # b[f]
    /\ \A g \in Fields \ {f} : a[g] = b[g]

\* member d differs from the others in field f alone; the others all agree
Diverges(d, f) ==
    /\ \A m \in (1..hn) \ {d} : \A o \in (1..hn) \ {d} :
          SameFields(MemberAnswers[m].resp, MemberAnswers[o].resp)
    /\ \A m \in (1..hn) \ {d} :
          DiffersOnlyIn(MemberAnswers[d].resp, MemberAnswers[m].resp, f)

OneFieldDivergence == \E d \in 1..hn : \E f \in Fields : Diverges(d, f)

\* C4: called with a non-zero revision on N >= 2 members whose header
\* revisions all equal it, CheckHashKV returns an error whenever exactly one
\* member differs from the others in exactly one of hash, hashRevision and
\* compactRevision, whichever member and whichever field it is.
C4_DivergenceDetected ==
    (hpc = "done" /\ hreq # 0 /\ hn >= 2 /\ AllMembersAnswered
        /\ OneFieldDivergence)
    => herr # NoError

\* three members, the last one alone reports another hash: "hash mismatch"
C4_Witness ==
    /\ hpc = "done" /\ hreq # 0 /\ hn = 3 /\ AllMembersAnswered
    /\ Diverges(3, "Hash")
    /\ herr = ErrHash

\* C5 (as specified; the code violates it): called with revision 0 on N >= 2 members, a
\* one-field divergence on any single member of the re-probe at the learned
\* revision, the last member included, makes CheckHashKV return an error.
C5_DivergenceDetectedAtRevisionZero ==
    (hpc = "done" /\ hreq = 0 /\ hn >= 2 /\ AllMembersAnswered
        /\ OneFieldDivergence)
    => herr # NoError

\* C6: when every answer (the probe made for revision 0 included) carries
\* the same hash, hashRevision and compactRevision and every member's header
\* revision is the revision asked, CheckHashKV returns no error.
C6_NoFalseAlarm ==
    (hpc = "done" /\ AllMembersAnswered
        /\ \A k \in 1..Len(responses) :
              responses[k].ok /\ SameFields(responses[k].resp, responses[1].resp))
    => herr = NoError

\* revision 0, three members, all answers alike: no error
C6_Witness ==
    /\ hpc = "done" /\ hreq = 0 /\ hn = 3 /\ AllMembersAnswered
    /\ \A k \in 1..Len(responses) :
          responses[k].ok /\ SameFields(responses[k].resp, responses[1].resp)
    /\ herr = NoError

\* an answer of the loop over clus.Procs whose header revision is not the
\* revision asked
StaleAnswer(k) ==
    /\ responses[k].ok
    /\ ~(hreq = 0 /\ k = 1)
    /\ responses[k].resp.Revision # responses[k].asked

\* C7: a member whose header revision is not the revision asked (for
\* revision 0, the one learned by the first probe) ends the call at once with
\* an error naming both revisions: its answer is the last one obtained, and
\* no comparison is made.
C7_RevisionMismatchFailsFast ==
    \A k \in 1..Len(responses) :
        StaleAnswer(k) =>
            /\ k = Len(responses)
            /\ hpc = "done"
            /\ herr = ErrRevision(responses[k].asked, responses[k].resp.Revision)
            /\ compared = 0
            /\ Len(hashKVs) = k - 1

\* three members, the first one is behind: the two others are never probed,
\* although nothing else distinguishes the answer
C7_Witness ==
    /\ hn = 3 /\ hreq # 0
    /\ Len(responses) = 1
    /\ StaleAnswer(1)
    /\ hpc = "done"

FirstMismatch(a, b) ==
    IF a.HashRevision # b.HashRevision THEN "hashRevision mismatch"
    ELSE IF a.CompactRevision # b.CompactRevision THEN "compactRevision mismatch"
    ELSE IF a.Hash # b.Hash THEN "hash mismatch"
    ELSE "nil"

AllCollected == Len(hashKVs) = hn + (IF hreq = 0 THEN 1 ELSE 0)

\* the iterations i of the comparison loop whose two snapshots disagree
MismatchingPairs ==
    {i \in 1..(hn - 1) : ~SameFields(hashKVs[i], hashKVs[i + 1])}

\* C27: the comparison loop takes the pairs of adjacent snapshots in order
\* and, in a pair, hashRevision, then compactRevision, then hash, and stops
\* at the first disagreement: when pairs disagree the error returned is the
\* one of the first field that differs in the lowest disagreeing pair, and
\* no later pair is looked at; when none disagrees no error is returned.
C27_FirstMismatchInScanOrder ==
    (hpc = "done" /\ hn >= 2 /\ AllCollected) =>
        IF MismatchingPairs = {}
           THEN herr = NoError
           ELSE LET lowest == CHOOSE i \in MismatchingPairs :
                                  \A j \in MismatchingPairs : i <= j
                IN  /\ herr.msg = FirstMismatch(hashKVs[lowest],
                                                hashKVs[lowest + 1])
                    /\ hidx = lowest
                    /\ compared = lowest

\* three members: the first pair differs in compactRevision and in hash, the
\* second in hashRevision; the error is the compactRevision one of the first
C27_Witness ==
    /\ hpc = "done" /\ hn = 3 /\ hreq # 0 /\ AllCollected
    /\ hashKVs[1].HashRevision = hashKVs[2].HashRevision
    /\ hashKVs[1].CompactRevision # hashKVs[2].CompactRevision
    /\ hashKVs[1].Hash # hashKVs[2].Hash
    /\ hashKVs[2].HashRevision # hashKVs[3].HashRevision
    /\ herr = ErrCompactRevision
    /\ compared = 1

\* a variant of CheckHashKV got the answers of all members it asked for and
\* went through its comparison loop
VariantCompared == hpc = "done" /\ herr # FailNoError

\* C28 (as specified; the code violates it): in the two-pass variant and
\* in the report-returning variant the hash of every member i >= 1 is
\* compared with the hash of member i-1, so the check fails whenever two
\* adjacent members (the second and the third, say) have different hashes.
C28_VariantsCompareAdjacentHashes ==
    VariantCompared =>
        ((\E i \in 1..(hn - 1) : hashKVs[i].Hash # hashKVs[i + 1].Hash)
            => herr # NoError)

\* ------------------------------------------------------------------------
\* Properties of the hijacked response writer (specification SpecWriter)
\* ------------------------------------------------------------------------

IsWriteOrWriteHeader(e) == e.op \in {"Write", "WriteHeader"}

\* both response-writer failpoints were armed when the call was made
BothArmed(e) == WriterFailpoints \subseteq e.armed

\* C16: a Write made while the response-writer failpoints are armed returns
\* no error, and when every Write and WriteHeader of the handler was made
\* while they were armed, the underlying writer has received no status code
\* and no body, whatever the handler wrote and whatever writer is wrapped.
C16_ArmedWritesAreDropped ==
    /\ \A i \in 1..Len(writerCalls) :
          (writerCalls[i].op = "Write" /\ BothArmed(writerCalls[i]))
          => writerCalls[i].ret.err = "nil"
    /\ (\A i \in 1..Len(writerCalls) :
            IsWriteOrWriteHeader(writerCalls[i]) => BothArmed(writerCalls[i]))
       => \A j \in 1..Len(underlyingCalls) :
              ~IsWriteOrWriteHeader(underlyingCalls[j])

\* the handler wrote the status 200 and a body while both failpoints were
\* armed: both calls returned, the underlying writer has seen nothing
C16_Witness ==
    /\ originalResponseWriter = "writer"
    /\ Len(writerCalls) = 2
    /\ writerCalls[1].op = "WriteHeader" /\ writerCalls[1].arg.code = 200
    /\ writerCalls[2].op = "Write" /\ writerCalls[2].arg.p = <<"a", "b">>
    /\ BothArmed(writerCalls[1]) /\ BothArmed(writerCalls[2])
    /\ writerCalls[2].ret.err = "nil"
    /\ underlyingCalls = <<>>

\* the calls C19 is about
IsHeaderOrWrite(e) == e.op \in {"Header", "WriteHeader", "Write"}

\* no response-writer failpoint was armed when the call was made
NoneArmed(e) == e.armed \cap WriterFailpoints = {}

\* C19: with an underlying writer, when every Header, WriteHeader and Write
\* of the handler was made while both failpoints were disarmed, the
\* underlying writer has received the same calls with the same arguments in
\* the same order, and every Write returned the byte count and the error the
\* underlying Write returned.
C19_DisarmedWriterPassesThrough ==
    (/\ originalResponseWriter # "nil"
     /\ \A i \in 1..Len(writerCalls) :
           IsHeaderOrWrite(writerCalls[i]) => NoneArmed(writerCalls[i]))
    => LET made == SelectSeq(writerCalls, IsHeaderOrWrite)
           got == SelectSeq(underlyingCalls, IsHeaderOrWrite)
       IN  /\ Len(got) = Len(made)
           /\ \A i \in 1..Len(made) :
                 /\ got[i].op = made[i].op
                 /\ got[i].arg = made[i].arg
                 /\ made[i].ret = got[i].ret

\* WriteHeader(500) and a Write that the underlying writer cut short after
\* one byte, both made disarmed
C19_Witness ==
    /\ originalResponseWriter = "writer"
    /\ Len(writerCalls) = 2
    /\ \A i \in 1..2 : NoneArmed(writerCalls[i])
    /\ writerCalls[1].op = "WriteHeader" /\ writerCalls[1].arg.code = 500
    /\ writerCalls[2].op = "Write" /\ writerCalls[2].arg.p = <<"a", "b">>
    /\ writerCalls[2].ret = [n |-> 1, err |-> "ErrWrite"]
    /\ Len(underlyingCalls) = 2
    /\ underlyingCalls[1].op = "WriteHeader"

\* C30 (as specified; the code violates it): Flush calls the Flush of the
\* underlying writer exactly once when that writer has one, and otherwise
\* returns without calling anything and without failing.
C30_FlushOnlyWhenSupported ==
    [][Flush =>
          /\ ~writerPanic'
          /\ underlyingCalls' =
                 IF originalResponseWriter = "flusher"
                    THEN Append(underlyingCalls,
                                [op |-> "Flush", arg |-> NoArg,
                                 ret |-> NoReturn])
                    ELSE underlyingCalls]_vars

\* ------------------------------------------------------------------------
\* Properties of the hijacked reader (specifications SpecReader,
\* SpecRoundTrip)
\* ------------------------------------------------------------------------

\* the request-body failpoint was armed when the Read was made
ArmedRead(e) == DemoDropRequestBodyFailPoint \in e.armed

AllReads(path, P(_)) == \A i \in 1..Len(reads[path]) : P(reads[path][i])

ReadFailed(e) == e.err # "nil"
ReadEOF(e) == e.err = "EOF"

\* C17: a Read(p) made while the request-body failpoint is armed reads the
\* underlying stream once, for at most len(p) bytes, returns the count 0,
\* delivers nothing and returns the error of that read; so when every Read
\* of a body was made armed, the caller has received nothing, the bytes
\* taken are gone from the underlying stream, the stream is empty once
\* io.EOF was returned, and a Read has returned an error after at most
\* StreamLen + 1 calls, which ends a loop that reads until an error.
C17_ArmedReadsDrainAndDrop ==
    \A path \in Paths :
        /\ \A i \in 1..Len(reads[path]) :
              LET e == reads[path][i]
              IN  ArmedRead(e) =>
                      /\ e.called
                      /\ e.un = Len(e.took) /\ Len(e.took) <= e.len
                      /\ e.n = 0 /\ e.got = <<>>
                      /\ e.err = e.uerr
        /\ (reads[path] # <<>> /\ AllReads(path, ArmedRead)) =>
              /\ delivered[path] = <<>>
              /\ \E k \in 0..StreamLen : remaining[path] = Drop(Payload, k)
              /\ (\E i \in 1..Len(reads[path]) : ReadEOF(reads[path][i]))
                    => remaining[path] = <<>>
              /\ Len(reads[path]) > StreamLen
                    => \E i \in 1..Len(reads[path]) : ReadFailed(reads[path][i])

\* a body read to its end one byte at a time with the failpoint armed:
\* three reads, the last one returns io.EOF, nothing was delivered
C17_Witness ==
    \E path \in Paths :
        /\ originalReadCloser[path] = "stream"
        /\ Len(reads[path]) = StreamLen + 1
        /\ AllReads(path, ArmedRead)
        /\ \A i \in 1..StreamLen :
              reads[path][i].un = 1 /\ reads[path][i].err = "nil"
        /\ ReadEOF(reads[path][StreamLen + 1])
        /\ delivered[path] = <<>>
        /\ remaining[path] = <<>>

DisarmedRead(e) == ~ArmedRead(e)

\* C18: with an underlying stream, a Read made while the failpoint is
\* disarmed returns the count, the bytes and the error of the one Read it
\* makes on the underlying stream, and a Close returns what the underlying
\* Close returns; when every Read was made disarmed, what the caller was
\* given followed by what is left in the stream is the body.
C18_DisarmedReaderPassesThrough ==
    \A path \in Paths :
        originalReadCloser[path] = "stream" =>
            /\ \A i \in 1..Len(reads[path]) :
                  LET e == reads[path][i]
                  IN  DisarmedRead(e) =>
                          /\ e.called
                          /\ e.n = e.un /\ e.got = e.took /\ e.err = e.uerr
            /\ AllReads(path, DisarmedRead)
                  => delivered[path] \o remaining[path] = Payload
            /\ \A i \in 1..Len(closes[path]) :
                  closes[path][i].called
                      /\ closes[path][i].err = closes[path][i].uerr

\* a body read disarmed, one byte, then the other together with io.EOF, and
\* closed with an error of the underlying Close
C18_Witness ==
    \E path \in Paths :
        /\ originalReadCloser[path] = "stream"
        /\ Len(reads[path]) = 2
        /\ AllReads(path, DisarmedRead)
        /\ reads[path][1].got = <<1>> /\ reads[path][1].err = "nil"
        /\ reads[path][2].got = <<2>> /\ reads[path][2].err = "EOF"
        /\ delivered[path] = Payload
        /\ bodyState[path] = "closed"
        /\ closes[path][1].err = "ErrClose"

\* C20 (as specified; the code violates it): a Read on the body sent
\* through one round-tripper, made while the drop hook of the other path and
\* no other is armed, delivers everything it took from the underlying
\* stream.
C20_OtherPathFullyDelivered ==
    \A path \in Paths : \A other \in Paths \ {path} :
        \A i \in 1..Len(reads[other]) :
            reads[other][i].armed = {FailpointOf(path)}
            => reads[other][i].got = reads[other][i].took

\* the bytes taken from the underlying stream by the Reads of a log that
\* were made armed (isArmed) or disarmed (~isArmed), in the order of the Reads
RECURSIVE TookWhile(_, _)
TookWhile(log, isArmed) ==
    IF log = <<>> THEN <<>>
    ELSE (IF ArmedRead(Head(log)) = isArmed THEN Head(log).took ELSE <<>>)
             \o TookWhile(Tail(log), isArmed)

\* the bytes taken from the underlying stream by all the Reads of a log
RECURSIVE TookAll(_)
TookAll(log) ==
    IF log = <<>> THEN <<>> ELSE Head(log).took \o TookAll(Tail(log))

\* C29: the failpoint starts disarmed, and whatever the interleaving of
\* arming, disarming and Reads on a request body with an underlying stream:
\* each Read follows the arm state it found (armed: nothing is delivered;
\* disarmed: what the underlying Read returned is), the caller has been given
\* exactly the bytes taken by the disarmed Reads, in stream order, the bytes
\* taken by the armed Reads are gone, and delivered plus dropped bytes are
\* the bytes consumed from the underlying stream.
C29_DeliveredAreTheDisarmedReads ==
    /\ armed = {}
    /\ [](\A path \in Paths :
            originalReadCloser[path] = "stream" =>
                /\ \A i \in 1..Len(reads[path]) :
                       LET e == reads[path][i]
                       IN  IF ArmedRead(e)
                              THEN e.n = 0 /\ e.got = <<>>
                              ELSE e.n = e.un /\ e.got = e.took
                                       /\ e.err = e.uerr
                /\ delivered[path] = TookWhile(reads[path], FALSE)
                /\ TookAll(reads[path]) \o remaining[path] = Payload
                /\ Len(delivered[path]) + Len(TookWhile(reads[path], TRUE))
                       = Len(Payload) - Len(remaining[path]))

\* the first byte was read armed and dropped, the failpoint was disarmed,
\* and the second byte was read and delivered
C29_Witness ==
    \E path \in Paths :
        /\ originalReadCloser[path] = "stream"
        /\ Len(reads[path]) = 2
        /\ ArmedRead(reads[path][1]) /\ reads[path][1].took = <<1>>
        /\ DisarmedRead(reads[path][2]) /\ reads[path][2].got = <<2>>
        /\ delivered[path] = <<2>>
        /\ remaining[path] = <<>>
        /\ armed = {}

\* ------------------------------------------------------------------------
\* The wrappers without an underlying stream (specifications SpecReader,
\* SpecWriter)
\* ------------------------------------------------------------------------

\* C31 (as specified; the code violates it): with no underlying stream or
\* writer, no Read, Close, Write or WriteHeader crashes, armed or disarmed:
\* every Read returns 0 bytes and no error, every Close returns no error,
\* every Write returns 0 bytes and no error, and nothing reaches an
\* underlying writer.
C31_NilDelegateIsANoOp ==
    /\ \A path \in Paths :
          originalReadCloser[path] = "nil" =>
              /\ bodyState[path] # "panic"
              /\ \A i \in 1..Len(reads[path]) :
                    /\ reads[path][i].n = 0
                    /\ reads[path][i].err = "nil"
                    /\ ~reads[path][i].called
              /\ \A i \in 1..Len(closes[path]) : closes[path][i].err = "nil"
    /\ originalResponseWriter = "nil" =>
          /\ \A i \in 1..Len(writerCalls) :
                writerCalls[i].op = "Write"
                    => writerCalls[i].ret = [n |-> 0, err |-> "nil"]
          /\ \A j \in 1..Len(underlyingCalls) :
                ~IsWriteOrWriteHeader(underlyingCalls[j])

\* ------------------------------------------------------------------------
\* Properties of the hijacked round-trippers (specification SpecReader)
\* ------------------------------------------------------------------------

\* C32: a RoundTrip of either round-tripper calls the embedded transport
\* exactly once, with the request it was given whose Body is a hijacked
\* reader around the original body and whose other fields are as given, and
\* returns the response and the error the transport returned; the settings
\* of the embedded transport stay as configured.
C32_RoundTripWrapsBodyAndDelegates ==
    \A path \in Paths :
        /\ transports[path].settings = TransportSettings(path)
        /\ Len(transports[path].calls) = Len(roundTrips[path])
        /\ \A i \in 1..Len(roundTrips[path]) :
              LET made == roundTrips[path][i]
                  got == transports[path].calls[i]
              IN  /\ got.r = made.r
                  /\ made.r.Body = <<"hijackedReadCloser">> \o made.given.Body
                  /\ made.r.Method = made.given.Method
                  /\ made.r.URL = made.given.URL
                  /\ made.ret = got.ret
        /\ bodyState[path] # "new"
              => /\ Len(transports[path].calls) = 1
                 /\ <<originalReadCloser[path]>>
                        = roundTrips[path][1].given.Body

\* a request with a body went through a round-tripper whose transport
\* failed: the transport saw the hijacked body, the caller got the error
C32_Witness ==
    \E path \in Paths :
        /\ Len(roundTrips[path]) = 1
        /\ roundTrips[path][1].given.Body = <<"stream">>
        /\ transports[path].calls[1].r.Body = <<"hijackedReadCloser", "stream">>
        /\ roundTrips[path][1].ret = [resp |-> "nil", err |-> "ErrDial"]
        /\ reads[path] # <<>>

\* ------------------------------------------------------------------------
\* Exit of the watch workers (specifications Spec, SpecFair)
\* ------------------------------------------------------------------------

\* the worker called cancel() because it had reached its target: cancel() is
\* called either there or with maxRevision 0, and a target is never 0
CancelledAtTarget(w) == cancelled[w] /\ maxRevision[w] # 0

\* C33 (as specified; the code violates it): a worker that requested its own
\* cancellation because it had reached its target exits without reporting
\* that it did not collect all events.
C33_NoViolationAfterOwnCancel ==
    \A w \in Members :
        (CancelledAtTarget(w) /\ Exited(w)) => ~ReportedNotAllEvents(w)

\* C34 (as specified; the code violates it): the step by which a worker's
\* lastRevision comes to be >= its set maxRevision, be it an event batch, a
\* received target or a compaction cancel, is a step in which the worker
\* requests its cancellation, so that its ctx.Done() case is ready from then
\* on without any further event, target or external cancellation.
C34_CancelsWhenTargetReached ==
    [][\A w \in Members :
          (/\ pc[w] = "select"
           /\ ~ReachedTarget(maxRevision[w], lastRevision[w])
           /\ ReachedTarget(maxRevision'[w], lastRevision'[w]))
          => cancelled'[w]]_vars

\* C35: once the external context is cancelled, every worker exits, under
\* a select that takes a case that stays ready sooner or later: also when
\* the receive from the closed target stream is ready for ever and when the
\* watch channel is closed and re-opened again and again.
C35_ExternalCancelEndsEveryWorker ==
    extCancelled ~> (\A w \in Members : Exited(w))

\* the target stream is closed and drained, the external context was
\* cancelled, and every worker has exited, one of them below its target
C35_Witness ==
    /\ extCancelled
    /\ chanClosed /\ hashKVRevisionChan = <<>>
    /\ \A w \in Members : Exited(w)
    /\ \E w \in Members : ~cancelled[w] /\ ReportedNotAllEvents(w)

\* ------------------------------------------------------------------------
\* The revision a worker has observed (specification SpecSubscriptions)
\* ------------------------------------------------------------------------

\* C36: with subscriptions that deliver only revisions from their start
\* revision on, in increasing order, a worker's lastRevision starts at 1 and
\* no step lowers it, whether it handles an event batch, a closed watch
\* channel, a compaction cancel or a target; so it is always >= 1.
C36_LastRevisionNeverDecreases ==
    /\ \A w \in Members : lastRevision[w] = 1
    /\ [][\A w \in Members : lastRevision'[w] >= lastRevision[w]]_vars

\* a worker that saw the events of revision 2, had its subscription
\* cancelled by a compaction at revision 1, below what it had seen, then had
\* the watch channel closed, and has received a target: it is still at 2
C36_Witness ==
    \E w \in Members :
        /\ Len(watches[w]) = 3
        /\ watches[w][2] = [after |-> "canceled", last |-> 2, start |-> 3]
        /\ watches[w][3].after = "closed"
        /\ received[w] # <<>>
        /\ lastRevision[w] = 2

\* ------------------------------------------------------------------------
\* The two response-writer failpoints (specification SpecWriter)
\* ------------------------------------------------------------------------

IsWriteHeaderWriteOrFlush(e) == e.op \in {"WriteHeader", "Write", "Flush"}

\* C37 (as specified; the code violates it): when the handler has made only
\* WriteHeader, Write and Flush calls, all of them while both response-writer
\* failpoints were armed, the underlying writer has received no call at all.
C37_NothingReachesWhileArmed ==
    (\A i \in 1..Len(writerCalls) :
          IsWriteHeaderWriteOrFlush(writerCalls[i]) /\ BothArmed(writerCalls[i]))
    => underlyingCalls = <<>>

IsWrite(e) == e.op = "Write"
IsWriteHeader(e) == e.op = "WriteHeader"

\* a Write made while the body failpoint was disarmed
PassedWrite(e) == IsWrite(e) /\ HijackResponseWriterFailPoint \notin e.armed

\* a WriteHeader made while the header failpoint was disarmed
PassedWriteHeader(e) ==
    IsWriteHeader(e) /\ HijackResponseWriterHeaderFailPoint \notin e.armed

\* C38: with an underlying writer, a Write reaches it exactly when
\* HijackResponseWriterFailPoint is disarmed and a WriteHeader reaches it
\* exactly when HijackResponseWriterHeaderFailPoint is disarmed, each
\* whatever the other failpoint is: the Writes and the WriteHeaders the
\* underlying writer has received are those made while their own failpoint
\* was disarmed, with their arguments, in order.
C38_EachFailpointDropsItsOwnCall ==
    originalResponseWriter # "nil" =>
        LET passedW == SelectSeq(writerCalls, PassedWrite)
            gotW == SelectSeq(underlyingCalls, IsWrite)
            passedH == SelectSeq(writerCalls, PassedWriteHeader)
            gotH == SelectSeq(underlyingCalls, IsWriteHeader)
        IN  /\ Len(gotW) = Len(passedW)
            /\ \A i \in 1..Len(gotW) : gotW[i].arg = passedW[i].arg
            /\ Len(gotH) = Len(passedH)
            /\ \A i \in 1..Len(gotH) : gotH[i].arg = passedH[i].arg

\* with only the body failpoint armed, WriteHeader(200) reached the
\* underlying writer and the Write after it was dropped
C38_Witness ==
    /\ originalResponseWriter = "writer"
    /\ Len(writerCalls) = 2
    /\ \A i \in 1..2 : writerCalls[i].armed = {HijackResponseWriterFailPoint}
    /\ writerCalls[1].op = "WriteHeader" /\ writerCalls[1].arg.code = 200
    /\ writerCalls[2].op = "Write" /\ writerCalls[2].arg.p = <<"a">>
    /\ Len(underlyingCalls) = 1
    /\ underlyingCalls[1].op = "WriteHeader"

\* C39: a Write made while the body failpoint is armed returns the count 0
\* and no error, whatever p is, whatever the underlying writer is and
\* whatever the header failpoint is; so it never reports the len(p) bytes of
\* a non-empty p as written.
C39_ArmedWriteReturnsZero ==
    \A i \in 1..Len(writerCalls) :
        (IsWrite(writerCalls[i])
             /\ HijackResponseWriterFailPoint \in writerCalls[i].armed)
        => /\ writerCalls[i].ret = [n |-> 0, err |-> "nil"]
           /\ writerCalls[i].arg.p # <<>>
                 => writerCalls[i].ret.n # Len(writerCalls[i].arg.p)

\* a Write of two bytes made while only the body failpoint was armed
\* returned 0 and no error
C39_Witness ==
    \E i \in 1..Len(writerCalls) :
        /\ IsWrite(writerCalls[i])
        /\ writerCalls[i].armed = {HijackResponseWriterFailPoint}
        /\ writerCalls[i].arg.p = <<"a", "b">>
        /\ writerCalls[i].ret = [n |-> 0, err |-> "nil"]
        /\ originalResponseWriter = "writer"

====
